---- MODULE Spec2Model ----
(***************************************************************************)
(* Model of SmartCharging (apps/ev_charge_control/ev_charge_control.py):   *)
(* the price normalizer (get_price), the slot selection and charge state   *)
(* machine (calculate / start_stop_charging) and the self re-arming worker *)
(* (new_state / schedule_worker / worker).                                 *)
(*                                                                         *)
(* Conventions.  Instants are integer seconds counted from the midnight    *)
(* that starts day 0.  Prices are integers (hundredths of the currency     *)
(* unit).  Python's None is None (-1) for numeric values and NoneStr for   *)
(* strings.  The remaining-time sensor reports hours as a float; the model *)
(* carries it as a count of 1/TlDen hours.                                 *)
(***************************************************************************)
EXTENDS Integers, Sequences, FiniteSets, TLC

\* ------------------------------------------------------------------ constants
DELAY_AFTER_STATE_CHANGE == 5
MAX_TIME_FOR_WORKER_TO_SLEEP == 3600
RETRY_AFTER_FAILURE == 60
STORE_TO_FILE_EVERY == 86400
HOUR == 3600
DAY == 24 * HOUR

None == -1
Blank == -2
NoneStr == "None"

\* ------------------------------------------------------------------ bounds
\* The clock of the state machine runs over T0 + Step * (0 .. MaxTicks).
MaxTicks == 4
\* The remaining-time reading ranges over 0 .. MaxTl (in 1/TlDen hours), or None.
MaxTl == 2
\* last_changed stamps of the two sensors range over 0 .. MaxLc.
MaxLc == 1
\* Timer handles are drawn from 1 .. MaxTimers.
MaxTimers == 2

\* The remaining-time reading is carried in 1/TlDen hours.
TlDen == 2
\* The slot decision is tried on NumPoints hourly price points with prices
\* 1 .. MaxPrice (or null), at SlotBase - Step + Step * (0 .. MaxSlotTicks),
\* with charge_time_needed in Step * (0 .. MaxNeed).
NumPoints == 3
MaxPrice == 2
MaxSlotTicks == 8
MaxNeed == 6

T0 == 9 * HOUR
BehindHours == 10
AheadHours == 15
Step == HOUR \div 2
SlotBase == 22 * HOUR

\* ------------------------------------------------------------------ helpers
Min(a, b) == IF a < b THEN a ELSE b

RECURSIVE SumLength(_)
SumLength(s) == IF s = <<>> THEN 0 ELSE Head(s).length + SumLength(Tail(s))

\* Python's sorted(seq, key=lambda i: i[k]): a stable sort on field k.
RECURSIVE Insert(_, _, _)
Insert(x, s, k) ==
    IF s = <<>> THEN <<x>>
    ELSE IF x[k] < Head(s)[k] THEN <<x>> \o s
    ELSE <<Head(s)>> \o Insert(x, Tail(s), k)

RECURSIVE sorted(_, _)
sorted(s, k) ==
    IF s = <<>> THEN <<>>
    ELSE Insert(s[Len(s)], sorted(SubSeq(s, 1, Len(s) - 1), k), k)

\* An ISO 8601 time string of a price source, "<local date and time>+HH:00":
\* the instant `t` written in the zone `off` hours east of UTC.  The string is
\* carried as a number whose order is the order of the strings (the local
\* date and time first, the offset after it).
Iso(t, off) == (t + off * HOUR) * 100 + off

\* parser.parse() of such a string: an aware datetime, carried as the instant
\* it denotes and, apart, the offset it was written with.
parse(iso) == (iso \div 100) - (iso % 100) * HOUR
offset(iso) == iso % 100

\* The wall-clock reading of an aware datetime, which is what .date() and
\* .strftime() work on.
wall_clock(t, off) == t + off * HOUR

\* convert_time_to_seconds("HH:MM"), the string carried as <<HH, MM>>.
convert_time_to_seconds(time_str) ==
    time_str[1] * 3600 + time_str[2] * 60

\* get_time_from_config("finish_at_latest_by"): <<>> stands for a parameter
\* that is not in the configuration.
get_time_from_config(cfg) ==
    IF cfg = <<>> THEN None ELSE convert_time_to_seconds(cfg)

\* ------------------------------------------------------------------ get_price
\* midnight_today: the instant `t` with its time of day zeroed.
midnight_today(t) == (t \div DAY) * DAY

\* Variant of lines 673-682 that also rolls the deadline forward at the very
\* instant of the deadline (>= in place of >).
must_be_done_by_AtOrPast(t, cfg) ==
    LET m == get_time_from_config(cfg)
    IN  IF m # None /\ (t - midnight_today(t)) >= m THEN m + 24 * 3600 ELSE m

\* Lines 673-682: the deadline in seconds from midnight_today, rolled forward
\* by 24 h when the time of day of `t` is past it.
must_be_done_by(t, cfg) ==
    LET m == get_time_from_config(cfg)
    IN  IF m # None /\ (t - midnight_today(t)) > m THEN m + 24 * 3600 ELSE m

\* Lines 690-707, the merge.  A source is [required, readable, part]; an
\* unreadable source (get_state returned None) makes len(part) or
\* `prices += part` raise.
MergeRaises(price_data) ==
    \E i \in 1..Len(price_data) : ~price_data[i].readable

RECURSIVE MergePrices(_)
MergePrices(price_data) ==
    IF price_data = <<>> THEN <<>>
    ELSE LET pd == Head(price_data)
         IN  IF pd.required /\ Len(pd.part) = 0
             THEN MergePrices(Tail(price_data))
             ELSE pd.part \o MergePrices(Tail(price_data))

\* Lines 697-705: the flag as it stands after the merge.
MergeMissing(price_data) ==
    \E i \in 1..Len(price_data) :
        /\ price_data[i].required
        /\ \/ Len(price_data[i].part) = 0
           \/ \E j \in 1..Len(price_data[i].part) :
                  price_data[i].part[j].value = None

\* Lines 712-777: the scan of the points in the order line 710 left them in
\* (sorted on the start strings as the sources wrote them).  `acc` carries
\* future_prices and missing_price_info.
RECURSIVE ScanPrices(_, _, _, _)
ScanPrices(prices, t, mbdb, acc) ==
    IF prices = <<>> THEN acc
    ELSE
      LET p == Head(prices)
          rest == Tail(prices)
          start == parse(p.start)
          end == parse(p.end)
          start_from_midnight_today == start - midnight_today(t)
          end_from_midnight_today == end - midnight_today(t)
          missing == IF /\ acc.missing_price_info
                        /\ mbdb # None
                        /\ mbdb > start_from_midnight_today
                        /\ mbdb <= end_from_midnight_today
                     THEN FALSE ELSE acc.missing_price_info
          seconds_until_start == start - t
          usable_length ==
              IF mbdb # None /\ end_from_midnight_today > mbdb
              THEN mbdb - start_from_midnight_today
              ELSE IF seconds_until_start < 0
              THEN (end - start) + seconds_until_start
              ELSE end - start
      IN  IF p.value = None THEN ScanPrices(rest, t, mbdb, acc)
          ELSE IF (end - t) < 0 THEN ScanPrices(rest, t, mbdb, acc)
          ELSE IF mbdb # None /\ start_from_midnight_today >= mbdb
          THEN [acc EXCEPT !.missing_price_info = missing]
          ELSE ScanPrices(rest, t, mbdb,
                 [future_prices |-> Append(acc.future_prices,
                      [start |-> start,
                       end |-> end,
                       start_off |-> offset(p.start),
                       end_off |-> offset(p.end),
                       start_from_midnight |-> start_from_midnight_today,
                       end_from_midnight |-> end_from_midnight_today,
                       length |-> usable_length,
                       seconds_until_start |-> seconds_until_start,
                       price |-> p.value]),
                  missing_price_info |-> missing])

\* Lines 709-777: the merged points sorted on the start string, then scanned.
GetPriceScan(t, cfg, price_data) ==
    ScanPrices(sorted(MergePrices(price_data), "start"), t,
               must_be_done_by(t, cfg),
               [future_prices |-> <<>>,
                missing_price_info |-> MergeMissing(price_data)])

\* The flag missing_price_info as line 779 reads it.
missing_price_info(t, cfg, price_data) ==
    GetPriceScan(t, cfg, price_data).missing_price_info

\* get_price(): [raised, is_none, value].  The code returns future_prices whatever
\* missing_price_info is (line 782); None is returned only when price_data is
\* not configured, and then initialize() has already failed.
get_price(t, cfg, price_data) ==
    IF MergeRaises(price_data)
    THEN [raised |-> TRUE, is_none |-> FALSE, value |-> <<>>]
    ELSE [raised |-> FALSE, is_none |-> FALSE,
          value |-> GetPriceScan(t, cfg, price_data).future_prices]

\* ------------------------------------------------------------------ session
\* The session record `s` threaded through one evaluation:
\*   status_state, status_attributes, charge_time_needed : the object's fields;
\*   cmds    : the charger service calls of this evaluation, [cmd, ok];
\*   updates : the number of update_status_entity() calls of this evaluation;
\*   path    : the branch of calculate() / start_stop_charging() that ended
\*             the evaluation (history);
\*   price, slots : the interval sequence the slot selection read and the
\*                  slots it kept (history).
Unknown == -3

\* Python's str.lower(), for strings of ASCII characters: every upper-case
\* letter is replaced by its lower-case letter and every other character is
\* kept.
UpperCase == "ABCDEFGHIJKLMNOPQRSTUVWXYZ"
LowerCase == "abcdefghijklmnopqrstuvwxyz"

\* The lower-case letter of every upper-case letter.
LowerOf ==
    [ch \in {SubSeq(UpperCase, i, i) : i \in 1..Len(UpperCase)} |->
        LET i == CHOOSE k \in 1..Len(UpperCase) : SubSeq(UpperCase, k, k) = ch
        IN  SubSeq(LowerCase, i, i)]

LowerChar(ch) == IF ch \in DOMAIN LowerOf THEN LowerOf[ch] ELSE ch

RECURSIVE LowerFrom(_, _)
LowerFrom(v, i) ==
    IF i > Len(v) THEN ""
    ELSE LowerChar(SubSeq(v, i, i)) \o LowerFrom(v, i + 1)

lower(v) == LowerFrom(v, 1)

status_complete == lower("complete")
status_charging == lower("charging")
status_stopped == lower("stopped")
home_tag == "home"

\* format_time(seconds): "HH:MM", carried as the number HHMM.
format_time(seconds) ==
    LET h == seconds \div 3600
        m == (seconds \div 60) - h * 60
    IN  h * 100 + m

Reason(text) == [text |-> text, price |-> None]

\* start_charging() / stop_charging(): the service call is issued; `ok` is
\* FALSE when call_service raises, and the method then returns False.
start_charging(s, ok) ==
    [s EXCEPT !.cmds = Append(@, [cmd |-> "on", ok |-> ok])]

stop_charging(s, ok) ==
    [s EXCEPT !.cmds = Append(@, [cmd |-> "off", ok |-> ok])]

update_status_entity(s) ==
    [s EXCEPT !.updates = @ + 1]

Returns(s, path, ret) ==
    [s |-> [s EXCEPT !.path = path], ret |-> ret, raised |-> FALSE]
Raises(s, path) ==
    [s |-> [s EXCEPT !.path = path], ret |-> FALSE, raised |-> TRUE]

\* ------------------------------------------------------------------ slots
\* Variant of the loop that stops as soon as the summed length reaches
\* charge_time_needed (>= in place of >).
RECURSIVE TakeSlots_StopAtNeed(_, _, _)
TakeSlots_StopAtNeed(price, length, needed) ==
    IF price = <<>> THEN <<>>
    ELSE LET p == Head(price)
         IN  IF length + p.length >= needed
             THEN <<p>>
             ELSE <<p>> \o TakeSlots_StopAtNeed(Tail(price), length + p.length,
                                                needed)

\* Lines 542-549: take from the price-sorted list until the summed length
\* exceeds charge_time_needed.
RECURSIVE TakeSlots(_, _, _)
TakeSlots(price, length, needed) ==
    IF price = <<>> THEN <<>>
    ELSE LET p == Head(price)
         IN  IF length + p.length > needed
             THEN <<p>>
             ELSE <<p>> \o TakeSlots(Tail(price), length + p.length, needed)

\* Lines 537-549.
FindCheapestSlots(price, needed) ==
    TakeSlots(sorted(price, "price"), 0, needed)

\* Lines 589-594: the end of the run of back-to-back slots that starts the list.
RECURSIVE NextStop(_, _, _)
NextStop(slots, end_time, off) ==
    IF slots = <<>> THEN [t |-> end_time, off |-> off]
    ELSE IF Head(slots).start # end_time THEN [t |-> end_time, off |-> off]
    ELSE NextStop(Tail(slots), Head(slots).end, Head(slots).end_off)

\* date.today() (line 232): the local date of the operating system's clock,
\* which reads os_ahead seconds more than the host's clock at the instant t.
\* self.datetime(aware=True).date().today() calls the class method and drops
\* the host's date.  Dates are carried as day numbers.
date_today(t, os_ahead) == (t + os_ahead) \div DAY

\* get_friendly_date(), lines 231-236: "Today", "Tomorrow", or the date object
\* itself for any other day.  in_date is the wall-clock reading of the
\* datetime, today the value of date.today().
get_friendly_date(in_date, today) ==
    IF in_date \div DAY = today THEN "Today"
    ELSE IF in_date \div DAY = today + 1 THEN "Tomorrow"
    ELSE "date"

\* get_friendly_date(d) + " at " + d.strftime("%H:%M") raises TypeError when
\* get_friendly_date returned a date object (lines 569-578, 596-605).
FriendlyRaises(d, today) == get_friendly_date(d, today) = "date"

\* "Today at HH:MM" is carried as the number HHMM and "Tomorrow at HH:MM" as
\* 10000 + HHMM.
friendly(d, today) ==
    (IF get_friendly_date(d, today) = "Today" THEN 0 ELSE 10000)
        + format_time(d - midnight_today(d))

\* Lines 566-581.
RECURSIVE friendly_slots(_, _)
friendly_slots(slots, today) ==
    IF slots = <<>> THEN <<>>
    ELSE <<[start |-> friendly(wall_clock(Head(slots).start,
                                          Head(slots).start_off), today),
            end |-> friendly(wall_clock(Head(slots).end,
                                        Head(slots).end_off), today),
            price |-> Head(slots).price]>>
             \o friendly_slots(Tail(slots), today)

\* Line 607.
InSlot(slot, t) == slot.start < t /\ t < slot.end

\* ------------------------------------------------------------------ start_stop_charging
SetAttrs(s, left, next_start, next_stop, slots) ==
    [s EXCEPT !.status_attributes.charge_time_left = left,
              !.status_attributes.next_start = next_start,
              !.status_attributes.next_stop = next_stop,
              !.status_attributes.slots = slots]

SetStatus(s, state, reason) ==
    [s EXCEPT !.status_state = state, !.status_attributes.reason = reason]

\* Lines 494-512: charge_time_needed is None, probe the device for it.
ProbeTimeLeft(s, in) ==
    LET s1 == SetAttrs(s, Unknown, Blank, Blank, <<>>)
        s2 == start_charging(s1, in.callOK)
    IN  IF ~in.callOK
        THEN Returns(update_status_entity(
                 SetStatus(s2, "error", Reason("Unable to communicate with EV"))),
                 "probe", FALSE)
        ELSE Returns(update_status_entity(
                 SetStatus(s2, "calculating", Reason("Asking EV for time left"))),
                 "probe", TRUE)

\* Lines 515-532: get_price() returned None.
MissingPrices(s, in) ==
    LET s1 == SetAttrs(s, s.status_attributes.charge_time_left, Blank, Blank, <<>>)
        s2 == stop_charging(s1, in.callOK)
    IN  IF ~in.callOK
        THEN Returns(update_status_entity(
                 SetStatus(s2, "error", Reason("Unable to communicate with EV"))),
                 "missing_price", FALSE)
        ELSE Returns(update_status_entity(
                 SetStatus(s2, "stopped", Reason("Missing price info"))),
                 "missing_price", TRUE)

\* Lines 551-559: the selection kept nothing.
NoSlots(s, in) ==
    LET s1 == SetStatus(s, "no slots", Reason("No slots needed"))
        s2 == SetAttrs(s1, s.status_attributes.charge_time_left, Blank, Blank, <<>>)
        s3 == start_charging(update_status_entity(s2), in.callOK)
    IN  Returns(s3, "no_slots", in.callOK)

\* Lines 561-618: the slots in time order, the attributes, and the decision on
\* the earliest slot.  The evaluation raises in the loop of lines 567-581
\* when a slot starts or ends on a day that is neither the operating system's
\* today nor its tomorrow.
DecideOnSlots(s, in, t, current_slot, chosen) ==
    LET slots == sorted(chosen, "start")
        slot == slots[1]
        end_time == NextStop(slots, slot.start, slot.start_off)
        today == date_today(t, in.os_ahead)
        s1 == [s EXCEPT !.slots = slots]
        s2 == SetAttrs(s1, s.status_attributes.charge_time_left,
                       friendly(wall_clock(slot.start, slot.start_off), today),
                       friendly(wall_clock(end_time.t, end_time.off), today),
                       friendly_slots(slots, today))
        s3 == IF InSlot(slot, t)
              THEN [start_charging(s2, in.callOK) EXCEPT !.status_state = "charging"]
              ELSE [stop_charging(s2, in.callOK) EXCEPT !.status_state = "stopped"]
        s4 == [s3 EXCEPT !.status_attributes.reason =
                             [text |-> "Price now", price |-> current_slot.price]]
    IN  IF \E i \in 1..Len(slots) :
               \/ FriendlyRaises(wall_clock(slots[i].start,
                                            slots[i].start_off), today)
               \/ FriendlyRaises(wall_clock(slots[i].end,
                                            slots[i].end_off), today)
        THEN Raises(s1, "raised_friendly_date")
        ELSE Returns(update_status_entity(s4), "slots", TRUE)

\* start_stop_charging(), lines 491-618.  price[0] on an empty list raises
\* IndexError (line 536).
start_stop_charging(s, in, t) ==
    IF s.charge_time_needed = None THEN ProbeTimeLeft(s, in)
    ELSE
      LET gp == get_price(t, in.cfg, in.price_data)
      IN  IF gp.raised THEN Raises(s, "raised_get_price")
          ELSE IF gp.is_none THEN MissingPrices(s, in)
          ELSE IF gp.value = <<>> THEN Raises(s, "raised_no_price")
          ELSE
            LET price == gp.value
                current_slot == price[1]
                chosen == FindCheapestSlots(price, s.charge_time_needed)
                s1 == [s EXCEPT !.price = price, !.slots = chosen]
            IN  IF Len(chosen) = 0 THEN NoSlots(s1, in)
                ELSE DecideOnSlots(s1, in, t, current_slot, chosen)

\* ------------------------------------------------------------------ calculate
\* Variant of lines 429-433 that takes the reading when its stamp is not
\* newer than the charging state's.
TimeNeeded_NotNewer(in) ==
    IF in.tl > 0 /\ (in.cs_lc - in.tl_lc) >= 0
    THEN (in.tl * 3600) \div TlDen
    ELSE None

\* Variant of lines 429-433 that does not compare the stamps.
TimeNeeded_AnyStamp(in) ==
    IF in.tl > 0 THEN (in.tl * 3600) \div TlDen ELSE None

\* Lines 429-433.
TimeNeeded(in) ==
    IF in.tl > 0 /\ (in.cs_lc - in.tl_lc) < 0
    THEN (in.tl * 3600) \div TlDen
    ELSE None

\* Variant of lines 444-448 that gives the probe up and reports `stopped`.
FailedProbe_GivesUp(s, in) ==
    LET s1 == [s EXCEPT !.charge_time_needed = None,
                        !.status_state = "stopped"]
    IN  Returns(start_charging(s1, in.callOK), "failed_probe", TRUE)

\* Lines 444-448: the device reads "stopped" while the status is still
\* `calculating`; the probe is started again and the status is left as it is.
FailedProbe(s, in) ==
    LET s1 == [s EXCEPT !.charge_time_needed = None]
    IN  Returns(start_charging(s1, in.callOK), "failed_probe", TRUE)

\* calculate(), lines 369-457.  `active` is self.data["~_active"].  With a
\* readable charging state both last_changed stamps are read and parsed
\* (lines 416-423) before the state is looked at: a stamp that reads None
\* (the entity is not in the host) makes parser.parse() raise.
calculate(s, active, in, t) ==
    LET s0 == SetAttrs(s, None, None, None, <<None>>)
    IN
    IF active = "off" THEN
        LET s1 == IF s0.status_state = "stopped"
                  THEN start_charging(s0, in.callOK) ELSE s0
            s2 == SetStatus(s1, "disabled", Reason("Disabled by user"))
            s3 == [s2 EXCEPT !.charge_time_needed = None]
        IN  Returns(update_status_entity(s3), "disabled", TRUE)
    ELSE IF in.tracker # home_tag THEN
        LET s1 == SetStatus(s0, "inactive", Reason("EV is not home"))
            s2 == [s1 EXCEPT !.charge_time_needed = None]
        IN  Returns(update_status_entity(s2), "inactive", TRUE)
    ELSE IF in.cs = NoneStr THEN
        LET s1 == SetStatus(s0, "error", Reason("Error reading 'charging_state'"))
            s2 == [update_status_entity(s1) EXCEPT !.charge_time_needed = None]
        IN  Returns(s2, "no_charging_state", TRUE)
    ELSE IF in.cs_lc = None \/ in.tl_lc = None THEN
        Raises(s0, "raised_last_changed")
    ELSE
        LET cs == lower(in.cs)
        IN
        IF cs = status_charging THEN
            IF in.tl = None THEN Raises(s0, "raised_time_left")
            ELSE
              LET s1 == [s0 EXCEPT !.charge_time_needed = TimeNeeded(in)]
                  s2 == [s1 EXCEPT !.status_attributes.charge_time_left =
                            IF s1.charge_time_needed # None
                            THEN format_time(s1.charge_time_needed)
                            ELSE Unknown]
              IN  start_stop_charging(s2, in, t)
        ELSE IF cs = status_complete THEN
            LET s1 == SetStatus(s0, "complete", Reason("EV is charged"))
                s2 == [s1 EXCEPT !.status_attributes.charge_time_left = format_time(0),
                                 !.charge_time_needed = None]
            IN  Returns(start_charging(update_status_entity(s2), in.callOK),
                        "complete", TRUE)
        ELSE IF cs = status_stopped /\ s0.status_state = "calculating" THEN
            FailedProbe(s0, in)
        ELSE
            LET s2 == [s0 EXCEPT !.status_attributes.charge_time_left =
                            IF s0.charge_time_needed # None
                            THEN format_time(s0.charge_time_needed)
                            ELSE Unknown]
            IN  start_stop_charging(s2, in, t)

\* ------------------------------------------------------------------ state
VARIABLES
    now,                     \* self.datetime(aware=True)
    data_active,             \* self.data["~_active"]
    status_state,            \* self.status_state
    status_attributes,       \* self.status_attributes
    charge_time_needed,      \* self.charge_time_needed
    run_calculations_handle, \* self.run_calculations_handle
    timers,                  \* the scheduler's pending run_in timers, [h, delay]
    abort,                   \* self.abort, set by terminate()
    persistance_file,        \* the file <name>.json next to the module
    charger_command,         \* the last charger command issued: none, on, off
    save_due,                \* the instant of the next run_every() save
    last                     \* what the last handler read and did (history)

vars == <<now, data_active, status_state, status_attributes, charge_time_needed,
          run_calculations_handle, timers, abort, persistance_file,
          charger_command, save_due, last>>

\* ------------------------------------------------------------------ inputs
H(n) == n * HOUR

\* A raw point of a price source; start and end are ISO strings.  PointAt
\* writes them with the offset `off`, Point in UTC.
PointAt(s, e, v, off) == [start |-> Iso(s, off), end |-> Iso(e, off), value |-> v]
Point(s, e, v) == PointAt(s, e, v, 0)
Source(req, part) == [required |-> req, readable |-> TRUE, part |-> part]

\* One required source: 08-09 at 0.10, 09-10 at 0.50, 10-11 at 0.05.
PD_A == <<Source(TRUE, <<Point(H(8), H(9), 10), Point(H(9), H(10), 50),
                         Point(H(10), H(11), 5)>>)>>
\* A required source that is empty, and an optional one that ends at 10:00.
PD_B == <<Source(TRUE, <<>>), Source(FALSE, <<Point(H(9), H(10), 50)>>)>>
\* A required source with only a null value, and the same optional one.
PD_N == <<Source(TRUE, <<Point(H(10), H(11), None)>>),
          Source(FALSE, <<Point(H(9), H(10), 50)>>)>>
\* One optional source that ends at 10:00.
PD_P == <<Source(FALSE, <<Point(H(9), H(10), 50)>>)>>
\* A source whose state cannot be read.
PD_U == <<[required |-> TRUE, readable |-> FALSE, part |-> <<>>]>>

PriceChoices == {PD_A, PD_B, PD_N, PD_P, PD_U}

\* finish_at_latest_by: "11:00".
Deadline == <<11, 0>>

Clock == {T0 + Step * i : i \in 0..MaxTicks}
\* By how much the operating system's local clock is ahead of the host's
\* (AppDaemon's time_zone against the TZ of the process): the same clock, a
\* zone BehindHours to the west and a zone AheadHours to the east.
OsClocks == {0, -BehindHours * HOUR, AheadHours * HOUR}
TlValues == {None} \cup (0..MaxTl)
LcValues == 0..MaxLc
CsValues == {NoneStr, "Stopped", "Charging", "Complete"}
\* The same words as a sensor may also spell them.
Respelled == {"COMPLETE", "StOpPeD"}

Reading(tr, cs, cs_lc, tl, tl_lc, pd, ok) ==
    [tracker |-> tr, cs |-> cs, cs_lc |-> cs_lc, tl |-> tl, tl_lc |-> tl_lc,
     cfg |-> Deadline, price_data |-> pd, callOK |-> ok, os_ahead |-> 0]

\* The same reading on a host whose clock is not the operating system's.
ReadingOn(os_ahead, in) == [in EXCEPT !.os_ahead = os_ahead]

\* The inputs of the slot decision on its own: NumPoints hourly points from
\* SlotBase (22:00, so that they run over midnight) with every valuation of
\* prices, alone or with an optional second source that reports the first
\* hour again; no deadline, one inside the second hour (23:30) and one after
\* midnight (00:30).
RawPoint(i, v) == Point(SlotBase + H(i), SlotBase + H(i + 1), v)
RawParts ==
    {[i \in 1..NumPoints |-> RawPoint(i - 1, f[i])] :
        f \in [1..NumPoints -> {None} \cup (1..MaxPrice)]}
ExtraSources == {<<>>, <<Source(FALSE, <<RawPoint(0, 1)>>)>>}
\* The hour in which the source's zone sets its clocks back: the points
\* 00:00-01:00 and 01:00-02:00 of the second day, written "02:00+02:00" and
\* "02:00+01:00".
BackParts ==
    {<<PointAt(H(24), H(25), v[1], 2), PointAt(H(25), H(26), v[2], 1)>> :
        v \in (1..MaxPrice) \X (1..MaxPrice)}
PriceInputs ==
    {<<Source(TRUE, part)>> \o extra : part \in RawParts, extra \in ExtraSources}
        \cup {<<Source(TRUE, part)>> : part \in BackParts}
DeadlineChoices == {<<>>, <<23, 30>>, <<0, 30>>}
SlotClock == {SlotBase - Step + Step * i : i \in 0..MaxSlotTicks}
NeedChoices == {Step * i : i \in 0..MaxNeed}

\* What one activation reads.  A reading the code does not use on the path
\* taken is left at its default: the tracker when the flag is off, and the
\* charging state, the remaining time and the stamps when the device is away
\* or the charging state is unreadable.  With a readable charging state the
\* time_left entity is either in the host (its stamp reads, its value may be
\* None) or absent (value and stamp both read None); the value and the order
\* of the stamps matter only when the state is "charging".  The words in
\* another spelling are read with the prices of PD_A, and so is the slot
\* decision on a host whose clock is not the operating system's.
Readings(active) ==
    IF active = "off"
    THEN {Reading(home_tag, NoneStr, 0, 0, 0, pd, ok) :
              pd \in PriceChoices, ok \in BOOLEAN}
    ELSE {Reading("not_home", NoneStr, 0, 0, 0, pd, ok) :
              pd \in PriceChoices, ok \in BOOLEAN}
         \cup {Reading(home_tag, cs, 0, 0, 0, pd, ok) :
                  cs \in CsValues \ {"Charging"},
                  pd \in PriceChoices, ok \in BOOLEAN}
         \cup {Reading(home_tag, cs, 0, None, None, pd, ok) :
                  cs \in CsValues \ {NoneStr},
                  pd \in PriceChoices, ok \in BOOLEAN}
         \cup UNION {{Reading(home_tag, "Charging", lc[1], tl, lc[2], pd, ok) :
                         tl \in TlValues, pd \in PriceChoices, ok \in BOOLEAN} :
                     lc \in LcValues \X LcValues}
         \cup {Reading(home_tag, cs, 0, 0, 0, PD_A, ok) :
                  cs \in Respelled, ok \in BOOLEAN}
         \cup {Reading(home_tag, "CHARGING", 0, tl, MaxLc, PD_A, ok) :
                  tl \in TlValues, ok \in BOOLEAN}
         \cup {ReadingOn(os, Reading(home_tag, cs, 0, MaxTl, MaxLc, PD_A, ok)) :
                  os \in OsClocks \ {0}, cs \in {"Charging", "Stopped"},
                  ok \in BOOLEAN}

NoReading ==
    [tracker |-> home_tag, cs |-> NoneStr, cs_lc |-> 0, tl |-> 0, tl_lc |-> 0,
     cfg |-> Deadline, price_data |-> <<>>, callOK |-> TRUE, os_ahead |-> 0]

NoActivation(ev, off_pending, cancelled) ==
    [ev |-> ev, off_pending |-> off_pending, cancelled |-> cancelled,
     prev_status |-> "unknown", prev_need |-> None, need |-> None,
     in |-> NoReading,
     cmds |-> <<>>, cmds_before |-> <<>>, updates |-> 0, ret |-> TRUE,
     raised |-> FALSE,
     gp_raised |-> FALSE,
     path |-> "", price |-> <<>>, slots |-> <<>>]

\* ------------------------------------------------------------------ timers
timer_running(th, tms) == \E tm \in tms : tm.h = th

\* remove_timer(), lines 219-229.
remove_timer(th, tms) ==
    IF th # None /\ timer_running(th, tms)
    THEN {tm \in tms : tm.h # th}
    ELSE tms

FreeHandles(tms) == {h \in 1..MaxTimers : ~timer_running(h, tms)}

\* run_in(): a fresh handle for a new pending timer.
run_in(tms, delay) ==
    LET h == CHOOSE x \in FreeHandles(tms) : \A y \in FreeHandles(tms) : x <= y
    IN  [handle |-> h, timers |-> tms \cup {[h |-> h, delay |-> delay]}]

\* Variant of schedule_worker() that arms without cancelling.
schedule_worker_NoCancel(th, tms, delay) ==
    run_in(tms, delay)

\* schedule_worker(), lines 329-333.
schedule_worker(th, tms, delay) ==
    run_in(remove_timer(th, tms), delay)

CanSchedule(th, tms) == FreeHandles(tms) # {}

\* ------------------------------------------------------------------ worker
\* `last` is history: no handler reads it.  The record of an activation is
\* dropped (Forget) before the next handler runs (Idle guards the handlers
\* in Next), so that the handlers run from the program's state alone.
Idle == last.ev # "worker"

Forget ==
    /\ last.ev = "worker"
    /\ last' = NoActivation("idle", FALSE, FALSE)
    /\ UNCHANGED <<abort, persistance_file, charger_command, save_due>>
    /\ UNCHANGED <<now, data_active, status_state, status_attributes,
                   charge_time_needed, run_calculations_handle, timers>>

\* Lines 352-361.
SleepTime(retry, price, t) ==
    LET sleep_time ==
            IF Len(price) > 0
            THEN Min(price[1].end - t, MAX_TIME_FOR_WORKER_TO_SLEEP)
            ELSE MAX_TIME_FOR_WORKER_TO_SLEEP
    IN  IF retry /\ sleep_time > RETRY_AFTER_FAILURE
        THEN RETRY_AFTER_FAILURE
        ELSE sleep_time

Session ==
    [status_state |-> status_state,
     status_attributes |-> status_attributes,
     charge_time_needed |-> charge_time_needed,
     cmds |-> <<>>, updates |-> 0,
     path |-> "", price |-> <<>>, slots |-> <<>>]

\* Lines 465-489: start_charging() and stop_charging() issue the commands of
\* the evaluation in order, whether or not the call succeeds; the last one
\* issued stands.
LastIssued(previous, cmds) ==
    IF cmds = <<>> THEN previous ELSE cmds[Len(cmds)].cmd

\* worker(), lines 335-367: the timer tm fires.  An exception of calculate()
\* is caught (retry); get_price() at line 350 is outside the try, so when it
\* raises the callback ends before schedule_worker().
Worker(tm, in) ==
    /\ tm \in timers
    /\ CanSchedule(run_calculations_handle, timers \ {tm})
    /\ \E c \in {calculate(Session, data_active, in, now)} :
       \E gp \in {get_price(now, in.cfg, in.price_data)} :
         /\ status_state' = c.s.status_state
         /\ status_attributes' = c.s.status_attributes
         /\ charge_time_needed' = c.s.charge_time_needed
         /\ IF gp.raised
            THEN /\ timers' = timers \ {tm}
                 /\ UNCHANGED run_calculations_handle
            ELSE \E sw \in {schedule_worker(run_calculations_handle,
                                timers \ {tm},
                                SleepTime(c.raised \/ ~c.ret, gp.value, now))} :
                   /\ timers' = sw.timers
                   /\ run_calculations_handle' = sw.handle
         /\ charger_command' = LastIssued(charger_command, c.s.cmds)
         /\ last' = [ev |-> "worker", off_pending |-> FALSE,
                     prev_status |-> status_state,
                     prev_need |-> charge_time_needed,
                     need |-> c.s.charge_time_needed,
                     in |-> in,
                     cmds |-> c.s.cmds, updates |-> c.s.updates,
                     ret |-> c.ret, raised |-> c.raised,
                     gp_raised |-> gp.raised, cancelled |-> FALSE,
                     cmds_before |-> <<>>,
                     path |-> c.s.path, price |-> c.s.price,
                     slots |-> c.s.slots]
    /\ UNCHANGED <<abort, persistance_file, save_due>>
    /\ UNCHANGED <<now, data_active>>

\* ------------------------------------------------------------------ new_state
\* Variant of lines 317-323 without the immediate run.
RunAfter_Debounce(is_active, new) == DELAY_AFTER_STATE_CHANGE

\* Lines 317-323: the delay new_state() asks for; `is_active` tells whether
\* the entity is the switch <name>_active.
RunAfter(is_active, new) ==
    IF is_active /\ new = "off" THEN 0 ELSE DELAY_AFTER_STATE_CHANGE

\* new_state(), lines 314-327, for the switch <name>_active.
NewStateActive(new) ==
    /\ CanSchedule(run_calculations_handle, timers)
    /\ LET run_after == RunAfter(TRUE, new)
           sw == schedule_worker(run_calculations_handle, timers, run_after)
       IN  /\ data_active' = new
           /\ timers' = sw.timers
           /\ run_calculations_handle' = sw.handle
           /\ last' = NoActivation("new_state_active",
                         new = "off" /\ data_active = "on"
                                     /\ status_state = "stopped",
                         timer_running(run_calculations_handle, timers))
    /\ UNCHANGED <<abort, persistance_file, charger_command, save_due>>
    /\ UNCHANGED <<now, status_state, status_attributes, charge_time_needed>>

\* new_state() for any other entity the app listens to.
NewStateOther ==
    /\ CanSchedule(run_calculations_handle, timers)
    /\ LET sw == schedule_worker(run_calculations_handle, timers,
                                 RunAfter(FALSE, "changed"))
       IN  /\ timers' = sw.timers
           /\ run_calculations_handle' = sw.handle
           /\ last' = NoActivation("new_state", last.off_pending,
                         timer_running(run_calculations_handle, timers))
    /\ UNCHANGED <<abort, persistance_file, charger_command, save_due>>
    /\ UNCHANGED <<now, data_active, status_state, status_attributes,
                   charge_time_needed>>

\* Time passes.
Tick ==
    /\ now < T0 + Step * MaxTicks
    /\ now' = now + Step
    /\ last' = NoActivation("tick", last.off_pending, FALSE)
    /\ UNCHANGED <<abort, persistance_file, charger_command, save_due>>
    /\ UNCHANGED <<data_active, status_state, status_attributes,
                   charge_time_needed, run_calculations_handle, timers>>

\* ------------------------------------------------------------------ persistence
\* The persistence file: absent, unreadable, or the JSON of self.data.  The
\* key "~_status" of self.data is set from ENTITIES (line 200) and never
\* assigned again, so the file always holds "unknown" for it.
NoFile == [kind |-> "absent", active |-> "", status |-> ""]
BadFile == [kind |-> "unreadable", active |-> "", status |-> ""]
FileOf(active) == [kind |-> "record", active |-> active, status |-> "unknown"]

\* save_persistance_file(), lines 202-214: the file after the call.  The
\* write ends in one of three ways: the JSON of self.data is written; open()
\* raises and the file is left as it was; or open(..., "w") has truncated the
\* file and the write raises, which leaves a file that json.load() cannot
\* read.  Either exception is caught and logged and the method returns False,
\* which no caller reads.
SaveOutcomes == {"written", "not_opened", "truncated"}

save_persistance_file(file, active, outcome) ==
    CASE outcome = "written" -> FileOf(active)
      [] outcome = "not_opened" -> file
      [] outcome = "truncated" -> BadFile

\* load_persistance_file(), lines 181-200: self.data["~_active"] after the
\* load; the state of ENTITIES ("on") when the file is absent or unreadable.
load_persistance_file(file) ==
    IF file.kind = "record" THEN file.active ELSE "on"

\* ------------------------------------------------------------------ spec
\* initialize(), lines 104-167, run on the persistence file as it stands: the
\* flag comes from the file (or the default "on"), the status is "unknown",
\* and a first activation is armed after 1 s.
Started ==
    /\ now = T0
    /\ data_active = load_persistance_file(persistance_file)
    /\ status_state = "unknown"
    /\ status_attributes = [reason |-> Reason(""), charge_time_left |-> Unknown,
                            next_start |-> Unknown, next_stop |-> Unknown,
                            slots |-> <<>>]
    /\ charge_time_needed = None
    /\ run_calculations_handle = schedule_worker(None, {}, 1).handle
    /\ timers = schedule_worker(None, {}, 1).timers
    /\ abort = FALSE
    /\ charger_command = "none"
    /\ save_due = now + STORE_TO_FILE_EVERY
    /\ last = NoActivation("init", FALSE, FALSE)

\* The first start: no persistence file yet.
Init ==
    /\ persistance_file = NoFile
    /\ Started

\* The slot decision on its own: start_stop_charging() run at the instant t
\* from the initial session with charge_time_needed = need.
SlotDecision(t, cfg, pd, need, os) ==
    /\ \E in \in {[NoReading EXCEPT !.cfg = cfg, !.price_data = pd,
                                     !.os_ahead = os]} :
       \E c \in {start_stop_charging(
                     [Session EXCEPT !.charge_time_needed = need], in, t)} :
         /\ now' = t
         /\ status_state' = c.s.status_state
         /\ status_attributes' = c.s.status_attributes
         /\ charge_time_needed' = c.s.charge_time_needed
         /\ charger_command' = LastIssued(charger_command, c.s.cmds)
         /\ last' = [NoActivation("slot_decision", FALSE, FALSE) EXCEPT
                         !.prev_status = status_state,
                         !.prev_need = need,
                         !.need = c.s.charge_time_needed,
                         !.in = in,
                         !.cmds = c.s.cmds, !.updates = c.s.updates,
                         !.ret = c.ret, !.raised = c.raised,
                         !.path = c.s.path, !.price = c.s.price,
                         !.slots = c.s.slots]
    /\ UNCHANGED <<abort, persistance_file, save_due>>
    /\ UNCHANGED <<data_active, run_calculations_handle, timers>>

InitSlots == Init /\ data_active = "on"

NextSlots ==
    /\ last.ev = "init"
    /\ \E t \in SlotClock, cfg \in DeadlineChoices, pd \in PriceInputs,
          need \in NeedChoices, os \in OsClocks :
              SlotDecision(t, cfg, pd, need, os)

SpecSlots == InitSlots /\ [][NextSlots]_vars

\* A pending timer fires and worker() runs.
Activation ==
    Idle /\ \E tm \in timers : \E in \in Readings(data_active) : Worker(tm, in)

\* The switch <name>_active changes and new_state() runs.
ActiveChanged ==
    Idle /\ \E new \in {"on", "off"} : NewStateActive(new)

\* Another entity changes and new_state() runs.
OtherChanged == Idle /\ NewStateOther

TimePasses == Idle /\ Tick

Next ==
    \/ Activation
    \/ ActiveChanged
    \/ OtherChanged
    \/ TimePasses
    \/ Forget

Spec == Init /\ [][Next]_vars

\* ------------------------------------------------------------------ properties
\* An activation (one run of worker()) has just ended.
Activated == last.ev = "worker"

\* The evaluation went on to read the prices with charge_time_needed known.
PricePaths ==
    {"missing_price", "no_slots", "slots", "raised_get_price", "raised_no_price",
     "raised_friendly_date"}

ReadPrices == Activated /\ last.path \in PricePaths

\* The evaluation issued exactly the command c.
Commanded(c) == Len(last.cmds) = 1 /\ last.cmds[1].cmd = c

CommandFailed == \E i \in 1..Len(last.cmds) : ~last.cmds[i].ok

\* The slot selection (lines 536-549) ran.
SelectionRan == last.path \in {"slots", "no_slots", "raised_friendly_date"}

\* ---- C1
\* C1 as stated: whenever slot selection runs, the summed usable length of
\* the selected slots is strictly greater than charge_time_needed, or the
\* selected set is empty, for every interval sequence.
C1_SumExceedsNeed_Original ==
    SelectionRan =>
        (SumLength(last.slots) > last.need \/ last.slots = <<>>)

\* C1 amended: whenever slot selection runs, the summed usable length of the
\* selected slots is strictly greater than charge_time_needed, or the
\* selected set is empty, or every interval of the sequence was selected and
\* the total usable length does not exceed charge_time_needed.
C1_SumExceedsNeed_Amended ==
    SelectionRan =>
        \/ SumLength(last.slots) > last.need
        \/ last.slots = <<>>
        \/ /\ Len(last.slots) = Len(last.price)
           /\ SumLength(last.price) <= last.need

\* The selection stopped before the end of a sequence of several intervals.
C1_Witness ==
    /\ SelectionRan
    /\ Len(last.price) > Len(last.slots)
    /\ Len(last.slots) >= 2
    /\ SumLength(last.slots) > last.need

\* ---- C2
ScenarioA ==
    /\ ReadPrices
    /\ last.in.price_data = PD_A
    /\ last.in.cfg = Deadline
    /\ now <= H(11)

OnlySlot10To11 ==
    /\ Len(last.slots) = 1
    /\ last.slots[1].start = H(10)
    /\ last.slots[1].end = H(11)

\* C2 as stated: in scenario A with charge_time_needed = 3600 the selected
\* slot set is exactly {10:00-11:00}, the status is `stopped` (command OFF)
\* before 10:00 and `charging` (command ON) from 10:00.
C2_ScenarioA_Original ==
    (ScenarioA /\ charge_time_needed = 3600) =>
        /\ OnlySlot10To11
        /\ (now < H(10)) => (status_state = "stopped" /\ Commanded("off"))
        /\ (now >= H(10) /\ now < H(11)) =>
               (status_state = "charging" /\ Commanded("on"))

\* ---- C3
\* C3 as stated: when a required source is empty (or all null) and the data
\* left does not reach through the deadline, get_price returns None and an
\* activation with a known charge_time_needed commands OFF and sets status
\* `stopped` with reason "Missing price info".
C3_MissingPriceInfoStops ==
    (/\ ReadPrices
     /\ ~MergeRaises(last.in.price_data)
     /\ missing_price_info(now, last.in.cfg, last.in.price_data)
     /\ last.in.callOK) =>
        /\ last.path = "missing_price"
        /\ status_state = "stopped"
        /\ status_attributes.reason.text = "Missing price info"
        /\ Commanded("off")

\* ---- C4
\* C4 as stated: when charge_time_needed is known and the normalized interval
\* sequence is empty, the activation reports status `no slots` with reason
\* "No slots needed", commands ON and completes as a normal run.
C4_EmptySequenceNoSlots ==
    (/\ ReadPrices
     /\ ~MergeRaises(last.in.price_data)
     /\ get_price(now, last.in.cfg, last.in.price_data).value = <<>>
     /\ last.in.callOK) =>
        /\ status_state = "no slots"
        /\ status_attributes.reason.text = "No slots needed"
        /\ Commanded("on")
        /\ ~last.raised /\ last.ret

\* ---- C5
\* C5 as stated: every worker activation, also one in which the evaluation
\* or the reading of the prices raises, ends with a pending activation armed.
C5_ActivationRearms ==
    Activated => timers # {}

\* ---- C6
\* C6: at every moment at most one worker activation (timer) is pending, and
\* it is the one run_calculations_handle names; each scheduling cancels the
\* still-pending timer before it arms the new one.  Handlers run one at a
\* time (each action is one whole callback), so one pending timer means at
\* most one evaluation to come.
C6_SinglePendingTimer ==
    /\ Cardinality(timers) <= 1
    /\ \A tm \in timers : tm.h = run_calculations_handle

\* An input change arrived while an activation was pending: the pending
\* timer was cancelled and one timer is pending.
C6_Witness ==
    /\ last.ev = "new_state"
    /\ last.cancelled
    /\ Cardinality(timers) = 1

\* ---- C7
\* C7 as stated: whenever a charger command issued during an activation
\* fails, the status after that activation is `error`.
C7_CommandFailedIsError ==
    (Activated /\ CommandFailed) => status_state = "error"

\* ---- C8
\* Rule 4 was reached: flag on, device home, charging state "charging".
Rule4 ==
    /\ Activated
    /\ data_active = "on"
    /\ last.in.tracker = home_tag
    /\ lower(last.in.cs) = status_charging

\* C8 as stated: under rule 4 charge_time_needed is remaining_hours * 3600
\* exactly when the reading is positive and its last-changed stamp is not
\* newer than the charging state's; otherwise it is unknown.
C8_Rule4_Original ==
    Rule4 =>
        charge_time_needed =
            IF last.in.tl # None /\ last.in.tl > 0 /\ last.in.tl_lc <= last.in.cs_lc
            THEN (last.in.tl * 3600) \div TlDen
            ELSE None

\* C8 amended: under rule 4 with a numeric remaining-time reading,
\* charge_time_needed is remaining_hours * 3600 exactly when the reading is
\* positive and its last-changed stamp is strictly newer than the charging
\* state's, and unknown otherwise; with an unreadable (None) reading the
\* evaluation raises and charge_time_needed keeps its previous value.
C8_Rule4_Amended ==
    Rule4 =>
        IF last.in.tl = None
        THEN last.raised /\ charge_time_needed = last.prev_need
        ELSE charge_time_needed =
                 IF last.in.tl > 0 /\ last.in.tl_lc > last.in.cs_lc
                 THEN (last.in.tl * 3600) \div TlDen
                 ELSE None

C8_Witness ==
    /\ Rule4
    /\ last.in.tl = 1
    /\ last.in.tl_lc > last.in.cs_lc
    /\ charge_time_needed = 3600 \div TlDen

\* ---- C9
\* The remaining-time reading predates the charging state's last change.
ScenarioE ==
    /\ Rule4
    /\ last.in.tl # None
    /\ last.in.tl_lc < last.in.cs_lc

\* C9 as stated: in scenario E the activation leaves charge_time_needed at
\* the value it had before the activation.
C9_ScenarioE_Original ==
    ScenarioE => charge_time_needed = last.prev_need

\* C9 amended: in scenario E (a numeric reading that predates the charging
\* state's last change) the activation sets charge_time_needed to unknown,
\* whatever it was before, and goes on to probe the device.
C9_ScenarioE_Amended ==
    ScenarioE => (charge_time_needed = None /\ last.path = "probe")

C9_Witness ==
    /\ ScenarioE
    /\ last.in.tl > 0
    /\ last.prev_need # None
    /\ charge_time_needed = None

\* ---- C10
\* The delay of the pending activation.
PendingDelayIs(d) == timers # {} /\ \A tm \in timers : tm.delay = d

\* C10 as stated: once the flag has flipped to off while the status was
\* `stopped`, the pending activation has a zero delay whatever other input
\* changes arrive, and it commands ON and sets status `disabled`.
C10_ScenarioC_Original ==
    /\ last.off_pending => PendingDelayIs(0)
    /\ (Activated /\ data_active = "off" /\ last.prev_status = "stopped") =>
           (status_state = "disabled" /\ Commanded("on"))

\* C10 amended: when the flag flips to off while the status is `stopped`, an
\* activation is armed with zero delay; another input change that arrives
\* before it runs re-arms it with the 5 s delay, so the pending delay is 0 or
\* 5 s; the next activation, the flag still off, commands ON and sets status
\* `disabled`.
C10_ScenarioC_Amended ==
    /\ (last.off_pending /\ last.ev = "new_state_active") => PendingDelayIs(0)
    /\ last.off_pending =>
           (PendingDelayIs(0) \/ PendingDelayIs(DELAY_AFTER_STATE_CHANGE))
    /\ (Activated /\ data_active = "off" /\ last.prev_status = "stopped") =>
           (status_state = "disabled" /\ Commanded("on"))

C10_Witness ==
    /\ Activated
    /\ data_active = "off"
    /\ last.prev_status = "stopped"
    /\ status_state = "disabled"
    /\ Commanded("on")

\* ---- C11
\* The evaluation ended in the decision on the earliest selected slot.
Decided == Activated /\ last.path = "slots"

\* C11 as stated: with charge_time_needed known and a non-empty selected slot
\* set, the activation commands ON and sets status `charging` exactly when
\* start <= now < end of the earliest selected slot, and otherwise commands
\* OFF and sets status `stopped`.
C11_HalfOpenDecision ==
    Decided =>
        IF last.slots[1].start <= now /\ now < last.slots[1].end
        THEN status_state = "charging" /\ Commanded("on")
        ELSE status_state = "stopped" /\ Commanded("off")

\* ---- C12
Max(a, b) == IF a > b THEN a ELSE b

\* The deadline of the evaluation as an instant, or None without one.
DeadlineInstant ==
    IF must_be_done_by(now, last.in.cfg) = None THEN None
    ELSE midnight_today(now) + must_be_done_by(now, last.in.cfg)

\* The part of [start, end) left once clipped to now and the deadline.
ClippedLength(p) ==
    IF DeadlineInstant = None THEN p.end - Max(p.start, now)
    ELSE Min(p.end, DeadlineInstant) - Max(p.start, now)

\* C12 as stated: for every interval the Price Normalizer returns,
\* usable_length = min(end, deadline) - max(start, now), also for an interval
\* that started before now and ends after the deadline.
C12_UsableLengthClipped ==
    \A i \in 1..Len(last.price) :
        last.price[i].length = ClippedLength(last.price[i])

\* ---- C13
\* C13 as stated: the Price Normalizer never returns an interval whose start offset
\* from the reference midnight is at or past the (possibly +24 h) deadline
\* offset, never returns an interval whose end lies before now, and returns
\* the intervals in ascending start order.
C13_NormalizerBounds ==
    /\ \A i \in 1..Len(last.price) :
          /\ must_be_done_by(now, last.in.cfg) # None =>
                 last.price[i].start - midnight_today(now)
                     < must_be_done_by(now, last.in.cfg)
          /\ last.price[i].end >= now
    /\ \A i, j \in 1..Len(last.price) :
          i < j => last.price[i].start <= last.price[j].start

\* ---- C14
\* C14 as stated: every activation whose evaluation returns issues at most
\* one charger command and publishes exactly one status update, on every
\* path, the failed-probe path and the unreadable-charging-state path
\* included.
C14_OneCommandOneUpdate ==
    (Activated /\ ~last.raised) =>
        (Len(last.cmds) <= 1 /\ last.updates = 1)

\* ---- C15
\* The Charge State Machine on its own: calculate() run from any session
\* state (status, charge_time_needed, flag) on any reading, and then run
\* again on the same reading at the same instant.
StatusValues ==
    {"unknown", "disabled", "inactive", "error", "calculating", "complete",
     "stopped", "charging"}

NeedValues == {None} \cup {(tl * 3600) \div TlDen : tl \in 1..MaxTl}

InitTwice ==
    /\ now \in Clock
    /\ data_active \in {"on", "off"}
    /\ status_state \in StatusValues
    /\ status_attributes = [reason |-> Reason(""), charge_time_left |-> Unknown,
                            next_start |-> Unknown, next_stop |-> Unknown,
                            slots |-> <<>>]
    /\ charge_time_needed \in NeedValues
    /\ run_calculations_handle = None
    /\ timers = {}
    /\ abort = FALSE
    /\ persistance_file = FileOf(data_active)
    /\ charger_command = "none"
    /\ save_due = now + STORE_TO_FILE_EVERY
    /\ last = NoActivation("start", FALSE, FALSE)

\* One run of calculate() on the reading `in`; `ev` names the run and
\* `before` is the command list of the run before it.
Evaluate(ev, in, before) ==
    /\ \E c \in {calculate(Session, data_active, in, now)} :
         /\ status_state' = c.s.status_state
         /\ status_attributes' = c.s.status_attributes
         /\ charge_time_needed' = c.s.charge_time_needed
         /\ charger_command' = LastIssued(charger_command, c.s.cmds)
         /\ last' = [NoActivation(ev, FALSE, FALSE) EXCEPT
                         !.prev_status = status_state,
                         !.prev_need = charge_time_needed,
                         !.need = c.s.charge_time_needed,
                         !.in = in,
                         !.cmds = c.s.cmds, !.cmds_before = before,
                         !.updates = c.s.updates,
                         !.ret = c.ret, !.raised = c.raised,
                         !.path = c.s.path, !.price = c.s.price,
                         !.slots = c.s.slots]
    /\ UNCHANGED <<abort, persistance_file, save_due>>
    /\ UNCHANGED <<now, data_active, run_calculations_handle, timers>>

RunFirst ==
    /\ last.ev = "start"
    /\ \E in \in Readings(data_active) : Evaluate("first", in, <<>>)

RunSecond ==
    /\ last.ev = "first"
    /\ Evaluate("second", last.in, last.cmds)

NextTwice == RunFirst \/ RunSecond

SpecTwice == InitTwice /\ [][NextTwice]_vars

\* C15: running the Charge State Machine twice in a row with identical inputs
\* and no elapsed time yields the same status after the second run as after
\* the first, and the second run issues the same charger command as the
\* first or none.
C15_Idempotent ==
    last.ev = "second" =>
        /\ status_state = last.prev_status
        /\ (last.cmds = <<>> \/ last.cmds = last.cmds_before)

\* The second run took the failed-probe branch after the first run probed.
C15_Witness ==
    /\ last.ev = "second"
    /\ last.path = "failed_probe"
    /\ last.cmds # <<>>
    /\ last.cmds = last.cmds_before
    /\ status_state = "calculating"

\* ---- C16
\* The activation took a positive remaining-time reading, newer than the
\* charging state, while the device was charging.
TookReading ==
    /\ Rule4
    /\ last.in.tl # None /\ last.in.tl > 0
    /\ last.in.tl_lc > last.in.cs_lc
    /\ charge_time_needed = (last.in.tl * 3600) \div TlDen

\* C16 as stated: charge_time_needed becomes known only by a remaining-time
\* reading taken while the device is charging, and after any activation in
\* which the charging state is not "charging", the device is not present or
\* charging is complete, charge_time_needed is unknown.
C16_NeedLifecycle_Original ==
    Activated =>
        /\ (charge_time_needed # None /\ last.prev_need = None) => TookReading
        /\ (last.in.tracker # home_tag
                \/ lower(last.in.cs) # status_charging) =>
               charge_time_needed = None

\* ---- C17, C18: shutdown and restart
\* terminate(), lines 169-179: save_persistance_file() runs, whatever its
\* outcome self.abort is set, the event listeners of handle_incoming_event
\* are cancelled.  The pending timers and the state listeners are not
\* touched.
Terminate(outcome) ==
    /\ ~abort
    /\ persistance_file' =
           save_persistance_file(persistance_file, data_active, outcome)
    /\ abort' = TRUE
    /\ last' = NoActivation("terminate", FALSE, FALSE)
    /\ UNCHANGED <<now, data_active, status_state, status_attributes,
                   charge_time_needed, run_calculations_handle, timers,
                   charger_command, save_due>>

\* The host fires the callback initialize() registered with run_every()
\* (lines 160-164): save_persistance_file() runs, and the next run is due
\* STORE_TO_FILE_EVERY later.
PeriodicSave(outcome) ==
    /\ now >= save_due
    /\ persistance_file' =
           save_persistance_file(persistance_file, data_active, outcome)
    /\ save_due' = save_due + STORE_TO_FILE_EVERY
    /\ last' = NoActivation("save", last.off_pending, FALSE)
    /\ UNCHANGED <<now, data_active, status_state, status_attributes,
                   charge_time_needed, run_calculations_handle, timers,
                   abort, charger_command>>

\* Time passes until the periodic save is due; followed for the save that
\* the first start registered.
NightPasses ==
    /\ now < save_due
    /\ save_due = T0 + STORE_TO_FILE_EVERY
    /\ now' = save_due
    /\ last' = NoActivation("tick", last.off_pending, FALSE)
    /\ UNCHANGED <<data_active, status_state, status_attributes,
                   charge_time_needed, run_calculations_handle, timers,
                   abort, persistance_file, charger_command, save_due>>

\* The app starts again after a shutdown: initialize() on a new object, with
\* the file as the shutdown left it.  The host's timers of the old object are
\* gone with it, and run_every() is registered anew.
Restart ==
    /\ abort
    /\ data_active' = load_persistance_file(persistance_file)
    /\ status_state' = "unknown"
    /\ status_attributes' = [reason |-> Reason(""), charge_time_left |-> Unknown,
                             next_start |-> Unknown, next_stop |-> Unknown,
                             slots |-> <<>>]
    /\ charge_time_needed' = None
    /\ run_calculations_handle' = schedule_worker(None, {}, 1).handle
    /\ timers' = schedule_worker(None, {}, 1).timers
    /\ abort' = FALSE
    /\ last' = [NoActivation("restart", FALSE, FALSE) EXCEPT
                    !.prev_status = status_state,
                    !.prev_need = charge_time_needed]
    /\ save_due' = now + STORE_TO_FILE_EVERY
    /\ UNCHANGED <<now, persistance_file, charger_command>>

\* The readings of the shutdown/restart runs: scenario A prices, a charger
\* that answers, the time_left entity in the host, the charging state in its
\* usual spelling, the host on the operating system's clock.
LifeReadings(active) ==
    {in \in Readings(active) :
        /\ in.price_data = PD_A /\ in.callOK /\ in.tl_lc # None
        /\ in.cs \in CsValues /\ in.os_ahead = 0}

\* The first start finds no file or one it cannot read; a record is there
\* once a save has written it.
Files == {NoFile, BadFile}

InitLife ==
    /\ persistance_file \in Files
    /\ Started

\* Activations, shutdowns and restarts are followed through the first day;
\* past it only the periodic save and the input changes are.
FirstDay == now <= T0 + Step * MaxTicks

ActivationLife ==
    /\ Idle /\ FirstDay
    /\ \E tm \in timers : \E in \in LifeReadings(data_active) : Worker(tm, in)

Shutdown == Idle /\ FirstDay /\ \E outcome \in SaveOutcomes : Terminate(outcome)

SaveDue == Idle /\ \E outcome \in SaveOutcomes : PeriodicSave(outcome)

Overnight == Idle /\ NightPasses

Startup == Idle /\ FirstDay /\ Restart

NextLife ==
    \/ ActivationLife
    \/ ActiveChanged
    \/ OtherChanged
    \/ TimePasses
    \/ Forget
    \/ Shutdown
    \/ Startup
    \/ SaveDue
    \/ Overnight

SpecLife == InitLife /\ [][NextLife]_vars

\* C17 as stated: after terminate no pending timer remains, and no later
\* input change or timer expiry starts a new evaluation or arms one.
C17_TerminateStops ==
    abort =>
        /\ timers = {}
        /\ ~Activated
        /\ last.ev \notin {"new_state", "new_state_active"}

\* ---- C18
\* C18 as stated: after a shutdown flush and a restart the session has the
\* same enable flag and the same status as before; an absent or unreadable
\* record yields the defaults (flag on, status unknown).
C18_RestartResumes ==
    /\ last.ev = "restart" =>
           /\ data_active = persistance_file.active
           /\ status_state = last.prev_status
    /\ (last.ev = "init" /\ persistance_file \in {NoFile, BadFile}) =>
           (data_active = "on" /\ status_state = "unknown")

\* ---- C19
\* C19 as stated: with the flag on, the device present and the charging state reading
\* "Complete" (the literal is compared case-insensitively), the activation
\* sets status `complete`, charge_time_left "00:00" (carried as 0), clears
\* charge_time_needed and commands ON, without running the slot selection.
C19_ScenarioD ==
    (/\ Activated
     /\ data_active = "on"
     /\ last.in.tracker = home_tag
     /\ lower(last.in.cs) = status_complete) =>
        /\ status_state = "complete"
        /\ status_attributes.charge_time_left = 0
        /\ charge_time_needed = None
        /\ Commanded("on")
        /\ last.path = "complete"
        /\ last.price = <<>> /\ last.slots = <<>>

\* ---- C20
\* The worker on its own, on readings that include a price source whose
\* first interval lies more than an hour ahead.
PD_L == <<Source(TRUE, <<Point(H(10), H(11), 5)>>)>>

\* A source whose zone sets its clocks back at 10:00: the points 09:00-10:00
\* and 10:00-11:00 carry the same local start with the offsets +02:00 and
\* +01:00.
PD_D == <<Source(TRUE, <<PointAt(H(9), H(10), 5, 2),
                         PointAt(H(10), H(11), 5, 1)>>)>>

WakeReadings ==
    {Reading(home_tag, cs, 0, tl, 1, pd, ok) :
        cs \in CsValues, tl \in TlValues,
        pd \in PriceChoices \cup {PD_L, PD_D}, ok \in BOOLEAN}

ActivationWake ==
    Idle /\ \E tm \in timers : \E in \in WakeReadings : Worker(tm, in)

NextWake ==
    \/ ActivationWake
    \/ ActiveChanged
    \/ TimePasses
    \/ Forget

SpecWake == Init /\ [][NextWake]_vars

\* The intervals the Price Normalizer retains for the activation's reading.
Retained == get_price(now, last.in.cfg, last.in.price_data).value

\* The run failed: an exception, or calculate() returned False.
FailedRun == last.raised \/ ~last.ret

\* The end of the earliest retained interval.
EarliestEnd ==
    LET first == CHOOSE i \in 1..Len(Retained) :
                     \A k \in 1..Len(Retained) :
                         Retained[i].start <= Retained[k].start
    IN  Retained[first].end

\* C20 as stated: the delay d the worker arms satisfies 0 <= d <= 3600; after a
\* successful run d = min(end of the earliest retained interval - now, 3600),
\* or 3600 with no retained interval; after a failed run d is in addition at
\* most 60.
C20_WakeDelay ==
    (Activated /\ ~last.gp_raised) =>
        \E tm \in timers :
            /\ timers = {tm}
            /\ 0 <= tm.delay /\ tm.delay <= 3600
            /\ FailedRun => tm.delay <= 60
            /\ tm.delay =
                  Min(IF FailedRun THEN 60 ELSE 3600,
                      IF Retained = <<>> THEN 3600
                      ELSE Min(EarliestEnd - now, 3600))

\* ---- C21
\* The configured deadline as seconds from midnight, and the deadline the
\* claim says is in effect at `now`.
LiteralDeadline == last.in.cfg[1] * 3600 + last.in.cfg[2] * 60

EffectiveDeadline ==
    IF now % 86400 > LiteralDeadline THEN LiteralDeadline + 86400
    ELSE LiteralDeadline

\* The interval the Price Normalizer returned for the point p, if any.
ReturnedFor(p) ==
    {j \in 1..Len(last.price) :
        /\ last.price[j].start = parse(p.start)
        /\ last.price[j].end = parse(p.end)
        /\ last.price[j].price = p.value}

\* A priced point that has not ended.
Live(p) == p.value # None /\ parse(p.end) >= now

\* A live point listed before p (in the order of the start strings) starts
\* at or after the deadline: the scan stops there and never reaches p.
CutBefore(p, pts) ==
    \E k \in 1..Len(pts) :
        /\ Live(pts[k])
        /\ pts[k].start < p.start
        /\ parse(pts[k].start) - (now - (now % 86400)) >= EffectiveDeadline

\* C21: when the time of day of now is past the configured deadline the
\* deadline that excludes and clips intervals is the literal value plus
\* 86400 s, otherwise the literal value: a priced point that has not ended
\* is returned exactly when it starts before that deadline and the scan was
\* not stopped by that deadline at a point listed before it, and an interval
\* that ends after it has the length from its start to that deadline.
C21_DeadlineRollover ==
    (last.ev = "slot_decision" /\ last.in.cfg # <<>>) =>
        LET mid == now - (now % 86400)
            pts == MergePrices(last.in.price_data)
        IN  /\ \A i \in 1..Len(pts) :
                  Live(pts[i]) =>
                      (ReturnedFor(pts[i]) # {}
                           <=> /\ parse(pts[i].start) - mid < EffectiveDeadline
                               /\ ~CutBefore(pts[i], pts))
            /\ \A j \in 1..Len(last.price) :
                  /\ last.price[j].start - mid < EffectiveDeadline
                  /\ last.price[j].end - mid > EffectiveDeadline =>
                         last.price[j].length
                             = EffectiveDeadline - (last.price[j].start - mid)

\* The deadline 00:30 read in the evening: it is rolled to the next day, and
\* the point 00:00-01:00 is returned clipped to it.
C21_Witness ==
    /\ last.ev = "slot_decision"
    /\ last.in.cfg # <<>>
    /\ now % 86400 > LiteralDeadline
    /\ \E j \in 1..Len(last.price) :
          /\ last.price[j].end - (now - (now % 86400)) > EffectiveDeadline
          /\ last.price[j].length
                 = EffectiveDeadline - (last.price[j].start - (now - (now % 86400)))
          /\ last.price[j].length > 0

\* ---- C22
\* C22 as stated: the slots reported by the selection, in their re-sorted
\* order, are non-decreasing in start and no two of them overlap in time
\* (they may only touch), also when several price sources report a point
\* for the same period.
C22_SlotsDisjoint ==
    (SelectionRan /\ last.path = "slots") =>
        \A i, j \in 1..Len(last.slots) :
            i < j => /\ last.slots[i].start <= last.slots[j].start
                     /\ last.slots[i].end <= last.slots[j].start

\* ---- C23
\* C23 as stated: whenever the status is `disabled`, the most recent charger
\* command issued by the controller is not OFF, also when the status passed
\* from `stopped` through `inactive` or `error` before the flag was turned
\* off.
C23_DisabledNotLeftOff ==
    status_state = "disabled" => charger_command # "off"

\* ---- C24
\* The activation read an unreadable charging state with the flag on and the
\* device present, and went on to arm the next wake.
UnreadableState ==
    /\ Activated
    /\ data_active = "on"
    /\ last.in.tracker = home_tag
    /\ last.in.cs = NoneStr
    /\ ~last.gp_raised

\* C24 as stated: with the flag on, the device present and the charging
\* state unreadable, the activation sets status `error`, issues no charger
\* command, and counts as a failed run: the next wake is armed at most 60 s
\* later.
C24_UnreadableIsFailedRun ==
    UnreadableState =>
        /\ status_state = "error"
        /\ last.cmds = <<>>
        /\ timers # {}
        /\ \A tm \in timers : tm.delay <= 60

\* ---- C25
\* C25 as stated: the slot selection over a non-empty interval sequence selects at
\* least one interval, the cheapest one (the earliest on a price tie),
\* whatever charge_time_needed is, and the selected set is a prefix of the
\* price-sorted sequence; the status `no slots` is never reached.
C25_SelectionNeverEmpty ==
    /\ status_state # "no slots"
    /\ (SelectionRan /\ last.price # <<>>) =>
          /\ Len(last.slots) >= 1
          /\ \E i \in 1..Len(last.slots) :
                /\ \A k \in 1..Len(last.price) :
                      last.slots[i].price <= last.price[k].price
                /\ \A k \in 1..Len(last.price) :
                      last.price[k].price = last.slots[i].price
                          => last.slots[i].start <= last.price[k].start
          /\ \E n \in 1..Len(last.price) :
                sorted(SubSeq(sorted(last.price, "price"), 1, n), "start")
                    = last.slots

====
